---- MODULE Spec2Model ----
(***************************************************************************)
(* Model of config.py, the configuration loader of the Binance futures     *)
(* trading bot.  The module body of config.py is the operation load():     *)
(* importing (or re-importing) the module runs lines 4 to 17 in order.     *)
(*                                                                         *)
(* Every loader is an operating-system process that runs the module body. *)
(* A loader owns its environment (os.environ) and its module globals; the  *)
(* working directory with the path "logs" is shared, and so is the .env    *)
(* file that load_dotenv() finds beside config.py or in a directory above. *)
(***************************************************************************)
EXTENDS Naturals, Sequences, FiniteSets, TLC

(* The processes that import config.py against the same working directory. *)
Loaders == {"p1", "p2"}

(* How many times one process runs the module body (import, then reload). *)
MaxLoads == 2

-----------------------------------------------------------------------------
(* Python values held by module globals. *)
None == [t |-> "None", v |-> ""]
Str(s) == [t |-> "str", v |-> s]
Bool(b) == [t |-> "bool", v |-> b]

(* No exception is pending. *)
NoError == "none"

-----------------------------------------------------------------------------
(* The inputs: environments, .env files, states of the path "logs". *)

(* The variables lines 6 to 8 read. *)
EnvNames == {"BINANCE_API_KEY", "BINANCE_API_SECRET", "TESTNET"}

(* The variable by which python-dotenv lets a process turn load_dotenv()  *)
(* off.                                                                   *)
DotenvSwitch == "PYTHON_DOTENV_DISABLED"

EnvValues(name) ==
    CASE name = "BINANCE_API_KEY" -> {"", "abc"}
      [] name = "BINANCE_API_SECRET" -> {"", "xyz"}
      [] name = "TESTNET" ->
            {"", "true", "TRUE", "1", " True", "True", "False", "false"}
      [] name = DotenvSwitch -> {"TRUE"}

FileValues(name) ==
    CASE name = "BINANCE_API_KEY" -> {"filekey"}
      [] name = "BINANCE_API_SECRET" -> {"filesecret"}
      [] name = "TESTNET" -> {"False"}

AllValues ==
    UNION {EnvValues(n) \cup FileValues(n) : n \in EnvNames}
        \cup EnvValues(DotenvSwitch)

(* An environment maps the names that are set to their values. *)
Environments ==
    {e \in UNION {[D -> AllValues] :
                    D \in SUBSET (EnvNames \cup {DotenvSwitch})} :
        \A n \in DOMAIN e : e[n] \in EnvValues(n)}

FileContents ==
    {e \in UNION {[D -> AllValues] : D \in SUBSET EnvNames} :
        \A n \in DOMAIN e : e[n] \in FileValues(n)}

NoVars == [n \in {} |-> ""]

(* The .env file.  It is missing; or present with its definitions (vars); *)
(* or present but not readable by the process or not decodable as UTF-8;  *)
(* or present with a definition (of the name bad) whose value holds a NUL *)
(* character, which os.environ refuses: vars are then the file's other    *)
(* definitions and before the names of those that precede the bad one.    *)
DotenvFiles ==
    {[present |-> FALSE, fault |-> "none", vars |-> NoVars, bad |-> "none",
      before |-> {}]}
        \cup {[present |-> TRUE, fault |-> "none", vars |-> c, bad |-> "none",
               before |-> {}] : c \in FileContents}
        \cup {[present |-> TRUE, fault |-> f, vars |-> NoVars, bad |-> "none",
               before |-> {}] : f \in {"unreadable", "undecodable"}}
        \cup {[present |-> TRUE, fault |-> "none", vars |-> NoVars,
               bad |-> "BINANCE_API_KEY", before |-> {}],
              [present |-> TRUE, fault |-> "none",
               vars |-> [n \in {"TESTNET", "BINANCE_API_SECRET"} |->
                            IF n = "TESTNET" THEN "False" ELSE "filesecret"],
               bad |-> "BINANCE_API_KEY", before |-> {"TESTNET"}]}

(* What the path "logs" is: nothing, a directory, a regular file, or a    *)
(* symbolic link whose target does not exist.                             *)
PathStates == {"absent", "dir", "file", "symlink"}

(* What the working directory allows the process: everything; lookups    *)
(* but no new entries, because the process has no write permission        *)
(* (readonly) or because the filesystem takes none, being mounted         *)
(* read-only or full (nospace); no lookups at all (no search permission); *)
(* everything by relative paths, while its absolute path cannot be        *)
(* resolved because a directory above it lost its search permission       *)
(* (unreachable); or it has been removed.                                 *)
DirStates == {"writable", "readonly", "nospace", "unsearchable",
              "unreachable", "removed"}

(* How the process that imports config.py is run, as far as load_dotenv() *)
(* tells: an ordinary script whose files are on disk (script); with no    *)
(* main file (python -c, a REPL, a notebook), under a trace function or   *)
(* debugger, or as a frozen executable (cwd); or all of it from a zip     *)
(* archive, so that no frame of the call stack has a file on disk, with   *)
(* assert statements in force (zip) or compiled away by python -O or      *)
(* PYTHONOPTIMIZE (zipO).                                                 *)
Importers == {"script", "cwd", "zip", "zipO"}

-----------------------------------------------------------------------------
(* The functions the module body calls. *)

(* The upper-case ASCII letters and their lower-case forms. *)
Upper == <<"A", "B", "C", "D", "E", "F", "G", "H", "I", "J", "K", "L", "M",
           "N", "O", "P", "Q", "R", "S", "T", "U", "V", "W", "X", "Y", "Z">>
Lower == <<"a", "b", "c", "d", "e", "f", "g", "h", "i", "j", "k", "l", "m",
           "n", "o", "p", "q", "r", "s", "t", "u", "v", "w", "x", "y", "z">>
LowerCase == [c \in {Upper[i] : i \in 1..26} |->
                Lower[CHOOSE i \in 1..26 : Upper[i] = c]]

(* str.casefold() of one ASCII character. *)
LowerOf(c) == IF c \in DOMAIN LowerCase THEN LowerCase[c] ELSE c

(* str.casefold() of an ASCII string: character by character. *)
RECURSIVE Casefold(_)
Casefold(s) ==
    IF s = ""
    THEN ""
    ELSE LowerOf(SubSeq(s, 1, 1)) \o Casefold(SubSeq(s, 2, Len(s)))

(* python-dotenv reads the switch as a truth value, whatever its case. *)
Disabled(env) ==
    /\ DotenvSwitch \in DOMAIN env
    /\ Casefold(env[DotenvSwitch]) \in {"1", "true", "t", "yes", "y"}

(* find_dotenv(): what the search for the .env file raises before it      *)
(* looks at any file.  A script is located by the file of the calling     *)
(* frame; the frame walk finds no file on disk for a zip importer and     *)
(* trips its assertion, or without the assertion reads an attribute of    *)
(* the frame that is not there.  A cwd importer starts at os.getcwd(),    *)
(* which raises when the directory is gone, and the walk up from there    *)
(* raises OSError('Starting path not found') when that path does not      *)
(* resolve.                                                               *)
find_dotenv(how, dir) ==
    IF how = "zip"
    THEN "AssertionError"
    ELSE IF how = "zipO"
    THEN "AttributeError"
    ELSE IF how = "cwd" /\ dir = "removed"
    THEN "FileNotFoundError"
    ELSE IF how = "cwd" /\ dir = "unreachable"
    THEN "OSError"
    ELSE NoError

(* os.environ after the definitions vars were set with override=False. *)
SetDefaults(env, vars) ==
    [n \in (DOMAIN env) \cup (DOMAIN vars) |->
        IF n \in DOMAIN env THEN env[n] ELSE vars[n]]

(* os.environ after the definitions vars were set with override=True. *)
SetAll(env, vars) ==
    [n \in (DOMAIN env) \cup (DOMAIN vars) |->
        IF n \in DOMAIN vars THEN vars[n] ELSE env[n]]

(* The definitions of vars whose names are in names. *)
Restrict(vars, names) == [n \in (DOMAIN vars) \cap names |-> vars[n]]

(* Mutant of load_dotenv: the file is never applied. *)
load_dotenv_Skipped(env, file, search) == [env |-> env, raised |-> NoError]

(* Mutant of load_dotenv: override=True, the file wins over os.environ. *)
load_dotenv_Override(env, file, search) ==
    IF Disabled(env)
    THEN [env |-> env, raised |-> NoError]
    ELSE IF search # NoError
    THEN [env |-> env, raised |-> search]
    ELSE IF ~file.present
    THEN [env |-> env, raised |-> NoError]
    ELSE IF file.fault = "unreadable"
    THEN [env |-> env, raised |-> "PermissionError"]
    ELSE IF file.fault = "undecodable"
    THEN [env |-> env, raised |-> "UnicodeDecodeError"]
    ELSE IF file.bad # "none"
    THEN [env |-> SetAll(env, Restrict(file.vars, file.before)),
          raised |-> "ValueError"]
    ELSE [env |-> SetAll(env, file.vars), raised |-> NoError]

(* load_dotenv() with its defaults (override=False): os.environ after    *)
(* the call and what the call raises.  search: what find_dotenv() raises. *)
(* A disabled call returns before it searches.  What the search raises    *)
(* leaves the call.  A missing file is skipped; a file that cannot be     *)
(* opened or decoded raises; a present file sets, in the file's order,    *)
(* the names that os.environ does not hold, and raises at a value with a  *)
(* NUL character.                                                         *)
load_dotenv(env, file, search) ==
    IF Disabled(env)
    THEN [env |-> env, raised |-> NoError]
    ELSE IF search # NoError
    THEN [env |-> env, raised |-> search]
    ELSE IF ~file.present
    THEN [env |-> env, raised |-> NoError]
    ELSE IF file.fault = "unreadable"
    THEN [env |-> env, raised |-> "PermissionError"]
    ELSE IF file.fault = "undecodable"
    THEN [env |-> env, raised |-> "UnicodeDecodeError"]
    ELSE IF file.bad # "none" /\ file.bad \notin DOMAIN env
    THEN [env |-> SetDefaults(env, Restrict(file.vars, file.before)),
          raised |-> "ValueError"]
    ELSE [env |-> SetDefaults(env, file.vars), raised |-> NoError]

(* Mutant of getenv: os.getenv(name) or default, an empty value is lost. *)
getenv_OrDefault(env, name, default) ==
    IF name \in DOMAIN env /\ env[name] # "" THEN Str(env[name]) ELSE default

(* os.getenv(name, default): the value as a str, or the default. *)
getenv(env, name, default) ==
    IF name \in DOMAIN env THEN Str(env[name]) ELSE default

(* Mutant of TESTNET: a lenient, case-insensitive reading of the flag. *)
TESTNET_Lenient(env) ==
    Bool(getenv(env, "TESTNET", Str("True")).v \in {"True", "true", "TRUE", "1"})

(* Line 8: os.getenv("TESTNET", "True") == "True". *)
TESTNET(env) == Bool(getenv(env, "TESTNET", Str("True")) = Str("True"))

(* Mutant of FUTURES_BASE_URL: the production branch yields no URL. *)
FUTURES_BASE_URL_NoProduction(testnet) ==
    IF testnet.v THEN Str("https://testnet.binancefuture.com") ELSE Str("")

(* Line 9: the conditional expression over TESTNET. *)
FUTURES_BASE_URL(testnet) ==
    IF testnet.v THEN Str("https://testnet.binancefuture.com")
    ELSE Str("https://fapi.binance.com")

(* Line 12. *)
LOG_DIR == Str("logs")

(* Mutant of join: plain concatenation, the separator is missing. *)
join_Concat(a, b) == Str(a.v \o b)

(* os.path.join(a, b) for a relative b on POSIX. *)
join(a, b) ==
    IF a.v = "" THEN Str(b) ELSE Str(a.v \o "/" \o b)

(* Line 13. *)
LOG_FILE == join(LOG_DIR, "bot.log")

(* Mutant of exists: the check never finds the path. *)
exists_Never(path, dir) == FALSE

(* os.path.exists(path): os.stat(path) succeeded.  It follows symbolic    *)
(* links and swallows OSError, so it is false of a dangling link and of   *)
(* any path in a directory that cannot be searched or is gone.            *)
exists(path, dir) ==
    /\ dir \in {"writable", "readonly", "nospace", "unreachable"}
    /\ path \in {"dir", "file"}

(* os.makedirs(path) with its default exist_ok=False: what the path is    *)
(* afterwards and what the call raises.                                   *)
makedirs(path, dir) ==
    IF dir = "removed"
    THEN [path |-> path, raised |-> "FileNotFoundError"]
    ELSE IF dir = "unsearchable"
    THEN [path |-> path, raised |-> "PermissionError"]
    ELSE IF path # "absent"
    THEN [path |-> path, raised |-> "FileExistsError"]
    ELSE IF dir = "readonly"
    THEN [path |-> path, raised |-> "PermissionError"]
    ELSE IF dir = "nospace"
    THEN [path |-> path, raised |-> "OSError"]
    ELSE [path |-> "dir", raised |-> NoError]

(* Mutant of Line17Raises: the call is wrapped in try/except: pass. *)
Line17Raises_Swallowed(outcome) == NoError

(* Lines 16-17 hold no try/except: what makedirs raises leaves the module. *)
Line17Raises(outcome) == outcome.raised

-----------------------------------------------------------------------------
VARIABLES
    startEnv,    \* the environment the processes were started with
    dotenvFile,  \* the .env file that load_dotenv() finds
    workDir,     \* what the working directory allows
    search,      \* what the search of load_dotenv() raises in the processes
    logsPath,    \* what the path "logs" is
    environ,     \* environ[p]: os.environ of process p
    globals,     \* globals[p]: the module globals assigned so far
    pc,          \* pc[p]: the line p runs next, or idle / done / failed
    error,       \* error[p]: the exception the module body raised
    errStep,     \* errStep[p]: the line that raised it
    loads,       \* loads[p]: how many times p has started the module body
    mk,          \* mk[p]: the os.makedirs call of the current run
    prev,        \* prev[p]: how p stood when its current run started
    inModules    \* inModules[p]: sys.modules of p holds the module

vars == <<startEnv, dotenvFile, workDir, search, logsPath, environ, globals,
          pc, error, errStep, loads, mk, prev, inModules>>

NoGlobals == [n \in {} |-> None]
NoCall == [checked |-> "none", called |-> FALSE, before |-> "none",
           raised |-> NoError]
NoRun == [ended |-> FALSE, ok |-> FALSE, created |-> FALSE,
          globals |-> NoGlobals, path |-> "absent", loaded |-> FALSE]

Init ==
    /\ startEnv \in Environments
    /\ dotenvFile \in DotenvFiles
    /\ workDir \in DirStates
    /\ logsPath \in PathStates
    /\ workDir = "removed" => logsPath = "absent"
    \* The importer acts on a run through what its search raises and
    \* through nothing else: the state holds that outcome.  A disabled
    \* load_dotenv() makes no search, whatever the importer.
    /\ search \in IF Disabled(startEnv)
                  THEN {NoError}
                  ELSE {find_dotenv(how, workDir) : how \in Importers}
    /\ environ = [p \in Loaders |-> startEnv]
    /\ globals = [p \in Loaders |-> NoGlobals]
    /\ pc = [p \in Loaders |-> "idle"]
    /\ error = [p \in Loaders |-> NoError]
    /\ errStep = [p \in Loaders |-> "none"]
    /\ loads = [p \in Loaders |-> 0]
    /\ mk = [p \in Loaders |-> NoCall]
    /\ prev = [p \in Loaders |-> NoRun]
    /\ inModules = [p \in Loaders |-> FALSE]

(* Lines 6 to 13: the assignments of the module globals. *)
Assigned(env) ==
    LET testnet == TESTNET(env)
    IN  [n \in {"BINANCE_API_KEY", "BINANCE_API_SECRET", "TESTNET",
                "FUTURES_BASE_URL", "LOG_DIR", "LOG_FILE"} |->
            CASE n = "BINANCE_API_KEY" -> getenv(env, "BINANCE_API_KEY", None)
              [] n = "BINANCE_API_SECRET" ->
                    getenv(env, "BINANCE_API_SECRET", None)
              [] n = "TESTNET" -> testnet
              [] n = "FUTURES_BASE_URL" -> FUTURES_BASE_URL(testnet)
              [] n = "LOG_DIR" -> LOG_DIR
              [] n = "LOG_FILE" -> LOG_FILE]

(* The process imports the module (import config), or runs its body again *)
(* (importlib.reload), up to line 16.  Lines 1 to 13 touch nothing that   *)
(* another process changes, so they are one step with the look at "logs"  *)
(* of line 16: if not os.path.exists(LOG_DIR).  sys.modules holds the     *)
(* module while its body runs; an import that failed takes it out again   *)
(* and leaves no module behind: the next import starts from an empty      *)
(* namespace; a reload runs in the namespace of the module that           *)
(* sys.modules holds, and leaves it there when it fails.                  *)
(* Line 4, load_dotenv(), holds no try/except: what the call raises       *)
(* leaves the module and lines 6 to 13 do not run.                        *)
Import(p) ==
    /\ pc[p] \in {"idle", "done", "failed"}
    /\ loads[p] < MaxLoads
    /\ loads' = [loads EXCEPT ![p] = @ + 1]
    /\ prev' = [prev EXCEPT ![p] =
                    [ended |-> pc[p] # "idle", ok |-> pc[p] = "done",
                     created |-> mk[p].called /\ mk[p].raised = NoError,
                     globals |-> globals[p], path |-> logsPath,
                     loaded |-> inModules[p]]]
    /\ LET outcome == load_dotenv(environ[p], dotenvFile, search)
           namespace == IF inModules[p] THEN globals[p] ELSE NoGlobals
           found == exists(logsPath, workDir)
       IN  /\ environ' = [environ EXCEPT ![p] = outcome.env]
           /\ error' = [error EXCEPT ![p] = outcome.raised]
           /\ IF outcome.raised = NoError
              THEN /\ globals' = [globals EXCEPT ![p] = Assigned(outcome.env)]
                   /\ errStep' = [errStep EXCEPT ![p] = "none"]
                   /\ mk' = [mk EXCEPT ![p] =
                                [NoCall EXCEPT !.checked = logsPath]]
                   /\ pc' = [pc EXCEPT ![p] =
                                IF found THEN "done" ELSE "line17"]
                   /\ inModules' = [inModules EXCEPT ![p] = TRUE]
              ELSE /\ globals' = [globals EXCEPT ![p] = namespace]
                   /\ errStep' = [errStep EXCEPT ![p] = "line4"]
                   /\ mk' = [mk EXCEPT ![p] = NoCall]
                   /\ pc' = [pc EXCEPT ![p] = "failed"]
                   /\ UNCHANGED inModules
    /\ UNCHANGED <<startEnv, dotenvFile, workDir, search, logsPath>>

(* Line 17: os.makedirs(LOG_DIR).  An exception takes the module of a     *)
(* first import out of sys.modules; after a reload it stays.              *)
MakeLogDir(p) ==
    /\ pc[p] = "line17"
    /\ LET outcome == makedirs(logsPath, workDir)
           raised == Line17Raises(outcome)
       IN  /\ logsPath' = outcome.path
           /\ mk' = [mk EXCEPT ![p] = [checked |-> @.checked, called |-> TRUE,
                                       before |-> logsPath,
                                       raised |-> outcome.raised]]
           /\ error' = [error EXCEPT ![p] = raised]
           /\ errStep' = [errStep EXCEPT ![p] =
                            IF raised = NoError THEN "none" ELSE "line17"]
           /\ pc' = [pc EXCEPT ![p] =
                            IF raised = NoError THEN "done" ELSE "failed"]
           /\ inModules' = [inModules EXCEPT ![p] =
                            raised = NoError \/ prev[p].loaded]
    /\ UNCHANGED <<startEnv, dotenvFile, workDir, search, environ, globals,
                   loads, prev>>

Next ==
    \E p \in Loaders :
        \/ Import(p)
        \/ MakeLogDir(p)

Spec == Init /\ [][Next]_vars

-----------------------------------------------------------------------------
(* Vocabulary of the properties. *)

TestnetUrl == "https://testnet.binancefuture.com"
ProductionUrl == "https://fapi.binance.com"

GlobalNames == {"BINANCE_API_KEY", "BINANCE_API_SECRET", "TESTNET",
                "FUTURES_BASE_URL", "LOG_DIR", "LOG_FILE"}

(* Lines 6 to 13 of some run of p have executed. *)
Loaded(p) == DOMAIN globals[p] = GlobalNames

(* The current run of p is past line 13. *)
PastAssignments(p) ==
    \/ pc[p] \in {"line17", "done"}
    \/ pc[p] = "failed" /\ errStep[p] = "line17"

(* The configuration of p is what the value s of variable n yields. *)
Reflects(p, n, s) ==
    IF n = "TESTNET"
    THEN /\ globals[p]["TESTNET"] = Bool(s = "True")
         /\ globals[p]["FUTURES_BASE_URL"] =
                Str(IF s = "True" THEN TestnetUrl ELSE ProductionUrl)
    ELSE globals[p][n] = Str(s)

(* The configuration of p is what an unset variable n yields. *)
ReflectsUnset(p, n) ==
    IF n = "TESTNET"
    THEN /\ globals[p]["TESTNET"] = Bool(TRUE)
         /\ globals[p]["FUTURES_BASE_URL"] = Str(TestnetUrl)
    ELSE globals[p][n] = None

-----------------------------------------------------------------------------
(* C1: use_test_network is true exactly when TESTNET, as os.environ holds  *)
(* it when line 8 reads it, is unset or is the literal "True"; the base    *)
(* URL is the test-network literal when it is true and the production      *)
(* literal in every other case.                                            *)
C1_TestnetExactMatch ==
    \A p \in Loaders :
        Loaded(p) =>
            LET on == IF "TESTNET" \in DOMAIN environ[p]
                      THEN environ[p]["TESTNET"] = "True"
                      ELSE TRUE
            IN  /\ globals[p]["TESTNET"] = Bool(on)
                /\ globals[p]["FUTURES_BASE_URL"] =
                        Str(IF on THEN TestnetUrl ELSE ProductionUrl)

(* A run that read the near-match " True" and selected production. *)
C1_Witness ==
    \E p \in Loaders :
        /\ pc[p] = "done"
        /\ "TESTNET" \in DOMAIN environ[p]
        /\ environ[p]["TESTNET"] = " True"
        /\ globals[p]["TESTNET"] = Bool(FALSE)
        /\ globals[p]["FUTURES_BASE_URL"] = Str(ProductionUrl)

(* C2: a loader that found "logs" absent at line 16 and finds it created   *)
(* by another loader when it calls os.makedirs completes with no error.    *)
C2_RaceTolerated ==
    \A p \in Loaders :
        (mk[p].called /\ mk[p].checked = "absent" /\ mk[p].before = "dir") =>
            (pc[p] = "done" /\ error[p] = NoError)

(* C3: whenever a run completes without error, "logs" is a directory.     *)
C3_DirectoryExistsAfterLoad ==
    \A p \in Loaders : pc[p] = "done" => logsPath = "dir"

(* C4, as stated: an exception of os.makedirs ends the run in that error, *)
(* with no second attempt and no completion, and line 17 is the only line *)
(* that ends a run in an error.                                           *)
C4_OnlyCreationFails ==
    \A p \in Loaders :
        /\ mk[p].raised # NoError =>
                (pc[p] = "failed" /\ error[p] = mk[p].raised)
        /\ pc[p] = "failed" <=> error[p] # NoError
        /\ error[p] # NoError => (errStep[p] = "line17" /\ mk[p].called)

(* C4, amended: an exception of os.makedirs ends the run in that error,   *)
(* with no second attempt and no completion; a run that attempted the     *)
(* creation and completed has the directory; a run ends in an error only  *)
(* at line 17 or at line 4 (load_dotenv()), and one that ended at line 4  *)
(* never attempted the creation; lines 6 to 13 never raise: every run     *)
(* that passed line 4 has all six globals.                                *)
C4_CreationFailurePropagates ==
    \A p \in Loaders :
        /\ mk[p].raised # NoError =>
                (pc[p] = "failed" /\ error[p] = mk[p].raised)
        /\ (pc[p] = "done" /\ mk[p].called) => logsPath = "dir"
        /\ pc[p] = "failed" <=> error[p] # NoError
        /\ error[p] # NoError => errStep[p] \in {"line4", "line17"}
        /\ errStep[p] = "line17" => (mk[p].called /\ error[p] = mk[p].raised)
        /\ errStep[p] = "line4" => (~mk[p].called /\ mk[p].checked = "none")
        /\ PastAssignments(p) => Loaded(p)

(* A run that os.makedirs refused and that ended in PermissionError.      *)
C4_Witness ==
    \E p \in Loaders :
        /\ mk[p].called
        /\ mk[p].raised = "PermissionError"
        /\ pc[p] = "failed"
        /\ error[p] = "PermissionError"
        /\ workDir = "readonly"
        /\ logsPath = "absent"

(* C5: a run that follows a completed run of the same process ends        *)
(* without error, never calls os.makedirs, yields the same configuration  *)
(* field by field and leaves "logs" as the first run left it.             *)
C5_Idempotent ==
    \A p \in Loaders :
        prev[p].ok =>
            /\ pc[p] # "failed"
            /\ ~mk[p].called
            /\ error[p] = NoError
            /\ logsPath = prev[p].path
            /\ PastAssignments(p) => globals[p] = prev[p].globals

(* A second run that completed after a first run that created "logs".     *)
C5_Witness ==
    \E p \in Loaders :
        /\ loads[p] = 2
        /\ pc[p] = "done"
        /\ prev[p].ok
        /\ prev[p].created
        /\ "BINANCE_API_KEY" \in DOMAIN startEnv

(* C6: once assigned, the base URL is one of the two literals, whatever   *)
(* the environment and the .env file hold; it is never None or empty.     *)
C6_BaseUrlIsKnownLiteral ==
    \A p \in Loaders :
        /\ PastAssignments(p) => "FUTURES_BASE_URL" \in DOMAIN globals[p]
        /\ "FUTURES_BASE_URL" \in DOMAIN globals[p] =>
            /\ globals[p]["FUTURES_BASE_URL"] \in
                    {Str(TestnetUrl), Str(ProductionUrl)}
            /\ globals[p]["FUTURES_BASE_URL"] \notin {None, Str("")}

(* A run with every variable set, in the process and in the file.         *)
C6_Witness ==
    \E p \in Loaders :
        /\ pc[p] = "done"
        /\ DOMAIN startEnv = EnvNames
        /\ dotenvFile.present
        /\ DOMAIN dotenvFile.vars = EnvNames
        /\ startEnv["TESTNET"] = "1"
        /\ globals[p]["FUTURES_BASE_URL"] = Str(ProductionUrl)

(* C7: for the key and for the secret, a variable that os.environ does    *)
(* not hold at line 6 / 7 yields None (not the empty string) and the run  *)
(* goes on; a variable set to s, the empty string included, yields s.     *)
C7_KeysPassedThrough ==
    \A p \in Loaders :
        /\ PastAssignments(p) => Loaded(p)
        /\ Loaded(p) =>
            \A n \in {"BINANCE_API_KEY", "BINANCE_API_SECRET"} :
                IF n \in DOMAIN environ[p]
                THEN globals[p][n] = Str(environ[p][n])
                ELSE globals[p][n] = None /\ globals[p][n] # Str("")

(* A run with the key unset and the secret set to the empty string.       *)
C7_Witness ==
    \E p \in Loaders :
        /\ pc[p] = "done"
        /\ "BINANCE_API_KEY" \notin DOMAIN environ[p]
        /\ "BINANCE_API_SECRET" \in DOMAIN environ[p]
        /\ environ[p]["BINANCE_API_SECRET"] = ""
        /\ globals[p]["BINANCE_API_KEY"] = None
        /\ globals[p]["BINANCE_API_SECRET"] = Str("")

(* C8, as stated: with the .env file missing, line 4 raises nothing on    *)
(* that account, os.environ stays the process environment and the         *)
(* configuration is what exactly its variables yield; with the file       *)
(* present, a variable that only the file defines determines its          *)
(* configuration field.                                                   *)
C8_FileAlwaysApplied ==
    \A p \in Loaders :
        /\ ~dotenvFile.present =>
                /\ errStep[p] = "line4" => (search # NoError /\ error[p] = search)
                /\ environ[p] = startEnv
        /\ (~dotenvFile.present /\ Loaded(p)) =>
                \A n \in EnvNames :
                    IF n \in DOMAIN startEnv
                    THEN Reflects(p, n, startEnv[n])
                    ELSE ReflectsUnset(p, n)
        /\ (dotenvFile.present /\ Loaded(p)) =>
                \A n \in (DOMAIN dotenvFile.vars) \ (DOMAIN startEnv) :
                    Reflects(p, n, dotenvFile.vars[n])

(* C8, amended: the same, but a present file determines the fields of    *)
(* the variables only it defines when load_dotenv() is not disabled by    *)
(* PYTHON_DOTENV_DISABLED (a truth value in any letter case); when it is  *)
(* disabled, line 4 raises nothing and os.environ stays the process       *)
(* environment as with a missing file.  With the file missing, line 4     *)
(* raises only what the search for the file raises.                       *)
C8_DotenvFileOptional ==
    LET off == Disabled(startEnv)
    IN  \A p \in Loaders :
            /\ (~dotenvFile.present \/ off) => environ[p] = startEnv
            /\ off => errStep[p] # "line4"
            /\ (~dotenvFile.present /\ errStep[p] = "line4") =>
                    (search # NoError /\ error[p] = search)
            /\ ((~dotenvFile.present \/ off) /\ Loaded(p)) =>
                    \A n \in EnvNames :
                        IF n \in DOMAIN startEnv
                        THEN Reflects(p, n, startEnv[n])
                        ELSE ReflectsUnset(p, n)
            /\ (dotenvFile.present /\ ~off /\ Loaded(p)) =>
                    \A n \in (DOMAIN dotenvFile.vars) \ (DOMAIN startEnv) :
                        Reflects(p, n, dotenvFile.vars[n])

(* A run whose key and TESTNET come from the file alone.                  *)
C8_Witness ==
    \E p \in Loaders :
        /\ pc[p] = "done"
        /\ dotenvFile.present
        /\ DOMAIN startEnv = {"BINANCE_API_SECRET"}
        /\ DOMAIN dotenvFile.vars = {"BINANCE_API_KEY", "TESTNET"}
        /\ dotenvFile.vars["TESTNET"] = "False"
        /\ globals[p]["BINANCE_API_KEY"] = Str("filekey")
        /\ globals[p]["TESTNET"] = Bool(FALSE)
        /\ globals[p]["BINANCE_API_SECRET"] = Str(startEnv["BINANCE_API_SECRET"])

(* C9: the log directory is the literal "logs" and the log file is        *)
(* "logs/bot.log", for every environment, .env file and state of "logs".  *)
C9_LogPathsFixed ==
    \A p \in Loaders :
        Loaded(p) =>
            /\ globals[p]["LOG_DIR"] = Str("logs")
            /\ globals[p]["LOG_FILE"] = Str("logs/bot.log")

(* Two completed runs, with every variable set and "logs" a regular file. *)
C9_Witness ==
    /\ \A p \in Loaders : pc[p] = "done" /\ Loaded(p)
    /\ DOMAIN startEnv = EnvNames
    /\ startEnv["BINANCE_API_KEY"] = "abc"
    /\ logsPath = "file"
    /\ \A p \in Loaders : globals[p]["LOG_FILE"] = Str("logs/bot.log")

(* C10: a variable set in the process environment keeps its value when    *)
(* the file defines it too, and the configuration reflects that value.   *)
C10_ProcessEnvironmentWins ==
    \A p \in Loaders :
        /\ \A n \in DOMAIN startEnv :
                n \in DOMAIN environ[p] /\ environ[p][n] = startEnv[n]
        /\ Loaded(p) =>
                \A n \in (DOMAIN startEnv) \cap EnvNames :
                    Reflects(p, n, startEnv[n])

(* A run where the file defines other values for the key and for TESTNET. *)
C10_Witness ==
    \E p \in Loaders :
        /\ pc[p] = "done"
        /\ dotenvFile.present
        /\ DOMAIN dotenvFile.vars = EnvNames
        /\ DOMAIN startEnv = EnvNames
        /\ startEnv["BINANCE_API_KEY"] = "abc"
        /\ startEnv["TESTNET"] = "True"
        /\ dotenvFile.vars["TESTNET"] = "False"
        /\ globals[p]["BINANCE_API_KEY"] = Str("abc")
        /\ globals[p]["TESTNET"] = Bool(TRUE)

====
